---- MODULE Spec2Model ----
(***************************************************************************)
(* A model of the DataFrame simulation engine of the DES repository:       *)
(* DFManager (src/data_manger.py) driven by run_simulation                 *)
(* (src/streamlit_app/simulation_engine.py).                               *)
(*                                                                         *)
(* Time is a float in the code.  The model measures it in ticks: one       *)
(* period is Scale ticks, so period p is the instant T(p) = p * Scale and  *)
(* a half period is representable (which is what makes round() more than   *)
(* the identity).  An undefined instant (np.nan) is the value NaN.         *)
(***************************************************************************)
EXTENDS Integers, Sequences, FiniteSets, TLC

\* ------------------------------------------------------------------ bounds
Scale == 2          \* ticks per period
MaxSimTime == 3     \* longest horizon of the enumerated runs
MaxParts == 2       \* largest population of the enumerated runs
MaxZ == 1           \* a raw draw of the stream is one of 0..2*MaxZ
MaxOverrides == 2   \* longest override list
MaxCalls == 3       \* direct sampler calls of the sampler harness

NaN == -1

T(p) == p * Scale

Max(a, b) == IF a >= b THEN a ELSE b

\* float arithmetic and comparison with np.nan: nan propagates through +,
\* and every comparison with nan is false
Add(a, b) == IF a = NaN \/ b = NaN THEN NaN ELSE a + b
Leq(a, b) == a # NaN /\ b # NaN /\ a <= b
Gt(a, b) == a # NaN /\ b # NaN /\ a > b
Eq(a, b) == a # NaN /\ b # NaN /\ a = b

\* Series.round(): to the nearest whole period, a tie to the even period
round(x) ==
    IF x = NaN THEN NaN
    ELSE LET q == x \div Scale
             r == x % Scale
         IN  IF 2 * r < Scale THEN T(q)
             ELSE IF 2 * r > Scale THEN T(q + 1)
             ELSE IF q % 2 = 0 THEN T(q) ELSE T(q + 1)

Stages == 1..4
DistCol == <<"stage_one_dist", "stage_two_dist", "stage_three_dist", "stage_four_dist">>
Value1Col == <<"stage_one_dist_value_1", "stage_two_dist_value_1",
               "stage_three_dist_value_1", "stage_four_dist_value_1">>
Value2Col == <<"stage_one_dist_value_2", "stage_two_dist_value_2",
               "stage_three_dist_value_2", "stage_four_dist_value_2">>

\* variant: .get with a default column, so an unknown label edits a cell
DefaultingLabelMap(label) ==
    CASE label = "Stage One Dist" -> "stage_one_dist"
      [] label = "Stage One Param 1" -> "stage_one_dist_value_1"
      [] label = "Stage One Param 2" -> "stage_one_dist_value_2"
      [] label = "Stage Two Dist" -> "stage_two_dist"
      [] label = "Stage Two Param 1" -> "stage_two_dist_value_1"
      [] label = "Stage Two Param 2" -> "stage_two_dist_value_2"
      [] label = "Stage Three Dist" -> "stage_three_dist"
      [] label = "Stage Three Param 1" -> "stage_three_dist_value_1"
      [] label = "Stage Three Param 2" -> "stage_three_dist_value_2"
      [] label = "Stage Four Dist" -> "stage_four_dist"
      [] label = "Stage Four Param 1" -> "stage_four_dist_value_1"
      [] label = "Stage Four Param 2" -> "stage_four_dist_value_2"
      [] OTHER -> "stage_one_dist_value_1"

\* label -> column; a label that is no key maps to "None" (dict.get)
STAGE_LABEL_MAP(label) ==
    CASE label = "Stage One Dist" -> "stage_one_dist"
      [] label = "Stage One Param 1" -> "stage_one_dist_value_1"
      [] label = "Stage One Param 2" -> "stage_one_dist_value_2"
      [] label = "Stage Two Dist" -> "stage_two_dist"
      [] label = "Stage Two Param 1" -> "stage_two_dist_value_1"
      [] label = "Stage Two Param 2" -> "stage_two_dist_value_2"
      [] label = "Stage Three Dist" -> "stage_three_dist"
      [] label = "Stage Three Param 1" -> "stage_three_dist_value_1"
      [] label = "Stage Three Param 2" -> "stage_three_dist_value_2"
      [] label = "Stage Four Dist" -> "stage_four_dist"
      [] label = "Stage Four Param 1" -> "stage_four_dist_value_1"
      [] label = "Stage Four Param 2" -> "stage_four_dist_value_2"
      [] OTHER -> "None"

ParamColumns == {"period", "n_total_parts"}
                  \cup {DistCol[i] : i \in Stages}
                  \cup {Value1Col[i] : i \in Stages}
                  \cup {Value2Col[i] : i \in Stages}

VARIABLES
    sim_time, n_total_parts, mission_need,      \* DFManager.__init__ arguments
    stage_dist, stage_dist_value_1, stage_dist_value_2,
    custom_params,
    params_df,                  \* the parameter table, a sequence of rows
    mission_need_overrides,     \* dict: period -> value
    sim_df,                     \* the lifecycle table, a sequence of records
    active_parts_df,            \* the active-part projection
    micap_log,                  \* the MICAP log, a sequence of entries
    loop_pos,                   \* iterations of process_simulation's loop done
    rng,                        \* position of the shared numpy stream
    sample_call,                \* the last direct call of the sampler harness
    error,                      \* the exception that ended the run, or "none"
    pc                          \* where run_simulation stands

vars == <<sim_time, n_total_parts, mission_need, stage_dist, stage_dist_value_1,
          stage_dist_value_2, custom_params, params_df, mission_need_overrides,
          sim_df, active_parts_df, micap_log, loop_pos, rng, sample_call, error, pc>>

config == <<sim_time, n_total_parts, mission_need, stage_dist, stage_dist_value_1,
            stage_dist_value_2, custom_params>>

\* ------------------------------------------------------------ the sampler
Draws == 0..(2 * MaxZ)

\* _sample_duration (defined below its two variants) takes the stream's next
\* raw draw u.  np.random.normal is
\* loc + scale * z with z = u - MaxZ; np.random.weibull is w = u >= 0 (0 when
\* a = 0).  numpy rejects scale < 0 and a < 0 before it draws.  drawn is
\* what the call consumed from the stream.
\* variant: the supported branches return the draw without max(0, .)
NoClampSample(dist_name, val1, val2, u) ==
    IF dist_name = "normal" THEN
        IF val2 < 0 THEN [err |-> "NumpyValueError", value |-> NaN, drawn |-> 0]
        ELSE [err |-> "none", value |-> val1 + val2 * (u - MaxZ), drawn |-> 1]
    ELSE IF dist_name = "weibull" THEN
        IF val1 < 0 THEN [err |-> "NumpyValueError", value |-> NaN, drawn |-> 0]
        ELSE [err |-> "none", value |-> (IF val1 = 0 THEN 0 ELSE u) * val2, drawn |-> 1]
    ELSE [err |-> "UnsupportedDistribution", value |-> NaN, drawn |-> 0]

\* variant: the unsupported branch consumes a draw before it raises
DrawFirstSample(dist_name, val1, val2, u) ==
    IF dist_name = "normal" THEN
        IF val2 < 0 THEN [err |-> "NumpyValueError", value |-> NaN, drawn |-> 0]
        ELSE [err |-> "none", value |-> Max(0, val1 + val2 * (u - MaxZ)), drawn |-> 1]
    ELSE IF dist_name = "weibull" THEN
        IF val1 < 0 THEN [err |-> "NumpyValueError", value |-> NaN, drawn |-> 0]
        ELSE [err |-> "none", value |-> Max(0, (IF val1 = 0 THEN 0 ELSE u) * val2),
              drawn |-> 1]
    ELSE [err |-> "UnsupportedDistribution", value |-> NaN, drawn |-> 1]

\* DFManager._sample_duration
_sample_duration(dist_name, val1, val2, u) ==
    IF dist_name = "normal" THEN
        IF val2 < 0 THEN [err |-> "NumpyValueError", value |-> NaN, drawn |-> 0]
        ELSE [err |-> "none", value |-> Max(0, val1 + val2 * (u - MaxZ)), drawn |-> 1]
    ELSE IF dist_name = "weibull" THEN
        IF val1 < 0 THEN [err |-> "NumpyValueError", value |-> NaN, drawn |-> 0]
        ELSE [err |-> "none", value |-> Max(0, (IF val1 = 0 THEN 0 ELSE u) * val2),
              drawn |-> 1]
    ELSE [err |-> "UnsupportedDistribution", value |-> NaN, drawn |-> 0]

\* the outcomes one call can have, over the stream's possible draws
Outcomes(dist_name, val1, val2) ==
    {_sample_duration(dist_name, val1, val2, u) : u \in Draws}

\* ------------------------------------------------- the parameter table
\* variant: max(1, int(x)), a period below 1 is read as period 1
ClampingInt(x) == Max(1, IF x >= 0 THEN x \div Scale ELSE -((-x) \div Scale))

\* int(x) of a float instant x: truncation toward zero, to a whole period
int(x) == IF x >= 0 THEN x \div Scale ELSE -((-x) \div Scale)

\* edit.get(key, default)
EditGet(edit, key, default) == IF key \in DOMAIN edit THEN edit[key] ELSE default

\* dict.get(key, default) and dict[key] = value
DictGet(d, key, default) == IF key \in DOMAIN d THEN d[key] ELSE default
DictSet(d, key, value) ==
    [k \in (DOMAIN d) \cup {key} |-> IF k = key THEN value ELSE d[k]]
EmptyDict == [k \in {} |-> 0]

\* variant: df["period"] >= period, the edit also holds for the later rows
FromPeriodOnSet(df, period, stage_col, value) ==
    [i \in 1..Len(df) |->
        IF df[i].period >= period THEN [df[i] EXCEPT ![stage_col] = value] ELSE df[i]]

\* df.loc[df["period"] == period, stage_col] = value
LocSet(df, period, stage_col, value) ==
    [i \in 1..Len(df) |->
        IF df[i].period = period THEN [df[i] EXCEPT ![stage_col] = value] ELSE df[i]]

\* variant: the edits are applied last to first, so the first one wins
RECURSIVE FirstWinsApply(_, _, _)
FirstWinsApply(df, overrides, edits) ==
    IF edits = <<>> THEN [df |-> df, mission_need_overrides |-> overrides]
    ELSE LET edit == edits[Len(edits)]
             stage == edit.stage
             period == int(EditGet(edit, "period", 0))
             value == edit.value
             stage_col == STAGE_LABEL_MAP(stage)
         IN  IF stage = "Mission Need"
             THEN FirstWinsApply(df, DictSet(overrides, period, value),
                                 SubSeq(edits, 1, Len(edits) - 1))
             ELSE IF stage_col \in ParamColumns
             THEN FirstWinsApply(LocSet(df, period, stage_col, value), overrides,
                                 SubSeq(edits, 1, Len(edits) - 1))
             ELSE FirstWinsApply(df, overrides, SubSeq(edits, 1, Len(edits) - 1))

\* the loop of _apply_custom_params over the edits left, in list order
RECURSIVE _apply_custom_params(_, _, _)
_apply_custom_params(df, overrides, edits) ==
    IF edits = <<>> THEN [df |-> df, mission_need_overrides |-> overrides]
    ELSE LET edit == Head(edits)
             stage == edit.stage
             period == int(EditGet(edit, "period", 0))
             value == edit.value
             stage_col == STAGE_LABEL_MAP(stage)
         IN  IF stage = "Mission Need"
             THEN _apply_custom_params(df, DictSet(overrides, period, value), Tail(edits))
             ELSE IF stage_col \in ParamColumns
             THEN _apply_custom_params(LocSet(df, period, stage_col, value), overrides,
                                       Tail(edits))
             ELSE _apply_custom_params(df, overrides, Tail(edits))

\* variant: range(0, sim_time) instead of range(1, sim_time + 1)
ZeroBasedTable ==
    [i \in 1..sim_time |->
        [period |-> i - 1,
         n_total_parts |-> n_total_parts,
         stage_one_dist |-> stage_dist[1],
         stage_one_dist_value_1 |-> stage_dist_value_1[1],
         stage_one_dist_value_2 |-> stage_dist_value_2[1],
         stage_two_dist |-> stage_dist[2],
         stage_two_dist_value_1 |-> stage_dist_value_1[2],
         stage_two_dist_value_2 |-> stage_dist_value_2[2],
         stage_three_dist |-> stage_dist[3],
         stage_three_dist_value_1 |-> stage_dist_value_1[3],
         stage_three_dist_value_2 |-> stage_dist_value_2[3],
         stage_four_dist |-> stage_dist[4],
         stage_four_dist_value_1 |-> stage_dist_value_1[4],
         stage_four_dist_value_2 |-> stage_dist_value_2[4]]]

\* the base table of create_params_df: one row per period of range(1, sim_time + 1)
BaseTable ==
    [i \in 1..sim_time |->
        [period |-> i,
         n_total_parts |-> n_total_parts,
         stage_one_dist |-> stage_dist[1],
         stage_one_dist_value_1 |-> stage_dist_value_1[1],
         stage_one_dist_value_2 |-> stage_dist_value_2[1],
         stage_two_dist |-> stage_dist[2],
         stage_two_dist_value_1 |-> stage_dist_value_1[2],
         stage_two_dist_value_2 |-> stage_dist_value_2[2],
         stage_three_dist |-> stage_dist[3],
         stage_three_dist_value_1 |-> stage_dist_value_1[3],
         stage_three_dist_value_2 |-> stage_dist_value_2[3],
         stage_four_dist |-> stage_dist[4],
         stage_four_dist_value_1 |-> stage_dist_value_1[4],
         stage_four_dist_value_2 |-> stage_dist_value_2[4]]]

\* indexing [0]..[3] of a list shorter than four raises IndexError
ListsTooShort ==
    Len(stage_dist) < 4 \/ Len(stage_dist_value_1) < 4 \/ Len(stage_dist_value_2) < 4

\* variant: a missing list entry is silently defaulted instead of raising
At(list, i, default) == IF i <= Len(list) THEN list[i] ELSE default
PaddedTable ==
    [i \in 1..sim_time |->
        [period |-> i,
         n_total_parts |-> n_total_parts,
         stage_one_dist |-> At(stage_dist, 1, "normal"),
         stage_one_dist_value_1 |-> At(stage_dist_value_1, 1, 0),
         stage_one_dist_value_2 |-> At(stage_dist_value_2, 1, 0),
         stage_two_dist |-> At(stage_dist, 2, "normal"),
         stage_two_dist_value_1 |-> At(stage_dist_value_1, 2, 0),
         stage_two_dist_value_2 |-> At(stage_dist_value_2, 2, 0),
         stage_three_dist |-> At(stage_dist, 3, "normal"),
         stage_three_dist_value_1 |-> At(stage_dist_value_1, 3, 0),
         stage_three_dist_value_2 |-> At(stage_dist_value_2, 3, 0),
         stage_four_dist |-> At(stage_dist, 4, "normal"),
         stage_four_dist_value_1 |-> At(stage_dist_value_1, 4, 0),
         stage_four_dist_value_2 |-> At(stage_dist_value_2, 4, 0)]]
PaddingCreateParams ==
    /\ pc = "constructed"
    /\ LET applied == _apply_custom_params(PaddedTable, mission_need_overrides,
                                            custom_params)
       IN  /\ params_df' = applied.df
           /\ mission_need_overrides' = applied.mission_need_overrides
           /\ pc' = "params_built"
           /\ UNCHANGED error
    /\ UNCHANGED <<config, sim_df, active_parts_df, micap_log, loop_pos, rng, sample_call>>

\* run_simulation: params_df = df_manager.create_params_df()
create_params_df ==
    /\ pc = "constructed"
    /\ IF ListsTooShort
       THEN /\ pc' = "error"
            /\ error' = "IndexError"
            /\ UNCHANGED <<params_df, mission_need_overrides>>
       ELSE LET applied == _apply_custom_params(BaseTable, mission_need_overrides,
                                                custom_params)
            IN  /\ params_df' = applied.df
                /\ mission_need_overrides' = applied.mission_need_overrides
                /\ pc' = "params_built"
                /\ UNCHANGED error
    /\ UNCHANGED <<config, sim_df, active_parts_df, micap_log, loop_pos, rng, sample_call>>

\* ------------------------------------------------- the lifecycle table
\* the outcomes of the sampler for stage i with the parameters of a row
StageOutcomes(row, i) == Outcomes(row[DistCol[i]], row[Value1Col[i]], row[Value2Col[i]])
\* Whether a call raises depends on its arguments only, never on the draw.
StageRaises(row, i) == \E o \in StageOutcomes(row, i) : o.err # "none"
StageFailure(row, i) == CHOOSE o \in StageOutcomes(row, i) : o.err # "none"
StageSamples(row, i) == {o \in StageOutcomes(row, i) : o.err = "none"}
FirstRaising(row) == CHOOSE i \in Stages :
    StageRaises(row, i) /\ \A j \in Stages : j < i => ~StageRaises(row, j)

RECURSIVE SumDrawn(_, _)
SumDrawn(f, n) == IF n = 0 THEN 0 ELSE f[n].drawn + SumDrawn(f, n - 1)

\* variant: every stage starts at 1.0 instead of at the previous stage's end
UnchainedRow(part_id, d) ==
    [part_id |-> part_id, cycle |-> 1, condemn |-> "no", period |-> NaN,
     stage_one_duration |-> d[1], stage_two_duration |-> d[2],
     stage_three_duration |-> d[3], stage_four_duration |-> d[4],
     stage_one_start |-> T(1),
     stage_one_end |-> Add(T(1), d[1]),
     stage_two_start |-> T(1),
     stage_two_end |-> Add(T(1), d[2]),
     stage_three_start |-> T(1),
     stage_three_end |-> Add(T(1), d[3]),
     stage_four_start |-> T(1),
     stage_four_end |-> Add(T(1), d[4])]

\* a row of create_initial_sim_df: the durations d[1..4], the instants chained
\* from stage_one_start = 1.0
InitialRow(part_id, d) ==
    LET s1_start == T(1)
        s1_end == Add(s1_start, d[1])
        s2_end == Add(s1_end, d[2])
        s3_end == Add(s2_end, d[3])
        s4_end == Add(s3_end, d[4])
    IN  [part_id |-> part_id, cycle |-> 1, condemn |-> "no", period |-> NaN,
         stage_one_duration |-> d[1], stage_two_duration |-> d[2],
         stage_three_duration |-> d[3], stage_four_duration |-> d[4],
         stage_one_start |-> s1_start, stage_one_end |-> s1_end,
         stage_two_start |-> s1_end, stage_two_end |-> s2_end,
         stage_three_start |-> s2_end, stage_three_end |-> s3_end,
         stage_four_start |-> s3_end, stage_four_end |-> s4_end]

\* run_simulation: sim_df = df_manager.create_initial_sim_df().  The stages
\* are sampled in order, n_total_parts calls each, with row 0 of params_df.
create_initial_sim_df ==
    /\ pc = "params_built"
    /\ LET row == params_df[1]
           n == n_total_parts
       IN  IF n > 0 /\ \E i \in Stages : StageRaises(row, i)
           THEN /\ pc' = "error"
                /\ error' = StageFailure(row, FirstRaising(row)).err
                /\ rng' = rng + n * (FirstRaising(row) - 1)
                              + StageFailure(row, FirstRaising(row)).drawn
                /\ UNCHANGED sim_df
           ELSE \E d1 \in [1..n -> StageSamples(row, 1)],
                   d2 \in [1..n -> StageSamples(row, 2)],
                   d3 \in [1..n -> StageSamples(row, 3)],
                   d4 \in [1..n -> StageSamples(row, 4)] :
                    /\ sim_df' = [p \in 1..n |->
                          InitialRow(p, <<d1[p].value, d2[p].value,
                                          d3[p].value, d4[p].value>>)]
                    /\ rng' = rng + SumDrawn(d1, n) + SumDrawn(d2, n)
                                  + SumDrawn(d3, n) + SumDrawn(d4, n)
                    /\ pc' = "initialized"
                    /\ UNCHANGED error
    /\ UNCHANGED <<config, params_df, mission_need_overrides, active_parts_df,
                   micap_log, loop_pos, sample_call>>

\* variant: na_position="first", an undefined end sorts before every end
NaNFirstLess(a, b) ==
    \/ a.part_id < b.part_id
    \/ /\ a.part_id = b.part_id
       /\ b.stage_four_end # NaN
       /\ (a.stage_four_end = NaN \/ a.stage_four_end < b.stage_four_end)

\* --------------------------------------------- the active-part projection
\* the order of sort_values(["part_id", "stage_four_end"]): NaN sorts last
RowLess(a, b) ==
    \/ a.part_id < b.part_id
    \/ /\ a.part_id = b.part_id
       /\ a.stage_four_end # NaN
       /\ (b.stage_four_end = NaN \/ a.stage_four_end < b.stage_four_end)

\* a stable sort: a row goes before the first row that is greater
RECURSIVE InsertSorted(_, _)
InsertSorted(s, r) ==
    IF s = <<>> THEN <<r>>
    ELSE IF RowLess(r, Head(s)) THEN <<r>> \o s
    ELSE <<Head(s)>> \o InsertSorted(Tail(s), r)

RECURSIVE sort_values(_)
sort_values(df) ==
    IF df = <<>> THEN <<>>
    ELSE InsertSorted(sort_values(SubSeq(df, 1, Len(df) - 1)), df[Len(df)])

NotCondemned(df) == SelectSeq(df, LAMBDA r : r.condemn = "no")

RECURSIVE KeepRows(_, _, _)
KeepRows(df, keep, i) ==
    IF i > Len(df) THEN <<>>
    ELSE (IF i \in keep THEN <<df[i]>> ELSE <<>>) \o KeepRows(df, keep, i + 1)

\* groupby("part_id").tail(1): the last row of every group, in the frame's order
GroupTail(df) ==
    KeepRows(df, {i \in 1..Len(df) :
                     \A j \in 1..Len(df) : j > i => df[j].part_id # df[i].part_id}, 1)

RoundEnds(df) ==
    [i \in 1..Len(df) |-> [df[i] EXCEPT !.stage_four_end = round(df[i].stage_four_end)]]

create_active_parts_df(df) == RoundEnds(GroupTail(sort_values(NotCondemned(df))))

\* run_simulation: active_parts_df = df_manager.create_active_parts_df(sim_df),
\* then process_simulation up to its loop
StartProcessing ==
    /\ pc = "initialized"
    /\ active_parts_df' = create_active_parts_df(sim_df)
    /\ micap_log' = <<>>
    /\ loop_pos' = 0
    /\ pc' = "looping"
    /\ UNCHANGED <<config, params_df, mission_need_overrides, sim_df, rng,
                   sample_call, error>>

\* ------------------------------------------------------ the period step
\* variant: .iloc[0], the part's first row
FirstRowOf(df, part_id) ==
    df[CHOOSE i \in 1..Len(df) :
          /\ df[i].part_id = part_id
          /\ \A j \in 1..Len(df) : df[j].part_id = part_id => i <= j]

\* sim_df[sim_df["part_id"] == part_id].iloc[-1]
LastRowOf(df, part_id) ==
    df[CHOOSE i \in 1..Len(df) :
          /\ df[i].part_id = part_id
          /\ \A j \in 1..Len(df) : df[j].part_id = part_id => j <= i]

\* variant: params_df.iloc[0], the row create_initial_sim_df reads
FirstRowParams(df, period) == df[1]

\* params_df.loc[params_df["period"] == period].iloc[0]
PeriodParams(df, period) ==
    df[CHOOSE i \in 1..Len(df) :
          /\ df[i].period = period
          /\ \A j \in 1..Len(df) : df[j].period = period => i <= j]

\* variant: the cycle number is carried over instead of incremented
SameCycleRow(part_id, period, d, df) ==
    LET part_row == LastRowOf(df, part_id)
        s1_start == part_row.stage_four_end
        s1_end == Add(s1_start, d[1])
        s2_end == Add(s1_end, d[2])
        s3_end == Add(s2_end, d[3])
        s4_end == Add(s3_end, d[4])
    IN  [period |-> period, part_id |-> part_id,
         stage_one_duration |-> d[1], stage_two_duration |-> d[2],
         stage_three_duration |-> d[3], stage_four_duration |-> d[4],
         stage_one_start |-> s1_start, stage_one_end |-> s1_end,
         stage_two_start |-> s1_end, stage_two_end |-> s2_end,
         stage_three_start |-> s2_end, stage_three_end |-> s3_end,
         stage_four_start |-> s3_end,
         stage_four_end |-> IF Gt(s4_end, T(sim_time)) THEN NaN ELSE s4_end,
         cycle |-> part_row.cycle, condemn |-> part_row.condemn]

\* variant: s4_end >= sim_time instead of s4_end > sim_time
AtHorizonOpenRow(part_id, period, d, df) ==
    LET part_row == LastRowOf(df, part_id)
        s1_start == part_row.stage_four_end
        s1_end == Add(s1_start, d[1])
        s2_end == Add(s1_end, d[2])
        s3_end == Add(s2_end, d[3])
        s4_end == Add(s3_end, d[4])
    IN  [period |-> period, part_id |-> part_id,
         stage_one_duration |-> d[1], stage_two_duration |-> d[2],
         stage_three_duration |-> d[3], stage_four_duration |-> d[4],
         stage_one_start |-> s1_start, stage_one_end |-> s1_end,
         stage_two_start |-> s1_end, stage_two_end |-> s2_end,
         stage_three_start |-> s2_end, stage_three_end |-> s3_end,
         stage_four_start |-> s3_end,
         stage_four_end |-> IF Gt(s4_end, T(sim_time)) \/ s4_end = T(sim_time)
                            THEN NaN ELSE s4_end,
         cycle |-> part_row.cycle + 1, condemn |-> part_row.condemn]

\* variant: the new cycle starts at the period stepped, not at the previous end
StartAtPeriodRow(part_id, period, d, df) ==
    LET part_row == LastRowOf(df, part_id)
        s1_start == T(period)
        s1_end == Add(s1_start, d[1])
        s2_end == Add(s1_end, d[2])
        s3_end == Add(s2_end, d[3])
        s4_end == Add(s3_end, d[4])
    IN  [period |-> period, part_id |-> part_id,
         stage_one_duration |-> d[1], stage_two_duration |-> d[2],
         stage_three_duration |-> d[3], stage_four_duration |-> d[4],
         stage_one_start |-> s1_start, stage_one_end |-> s1_end,
         stage_two_start |-> s1_end, stage_two_end |-> s2_end,
         stage_three_start |-> s2_end, stage_three_end |-> s3_end,
         stage_four_start |-> s3_end,
         stage_four_end |-> IF Gt(s4_end, T(sim_time)) THEN NaN ELSE s4_end,
         cycle |-> part_row.cycle + 1, condemn |-> part_row.condemn]

\* variant: a part whose new cycle runs past the horizon is condemned
RetiringRow(part_id, period, d, df) ==
    LET part_row == LastRowOf(df, part_id)
        s1_start == part_row.stage_four_end
        s1_end == Add(s1_start, d[1])
        s2_end == Add(s1_end, d[2])
        s3_end == Add(s2_end, d[3])
        s4_end == Add(s3_end, d[4])
    IN  [period |-> period, part_id |-> part_id,
         stage_one_duration |-> d[1], stage_two_duration |-> d[2],
         stage_three_duration |-> d[3], stage_four_duration |-> d[4],
         stage_one_start |-> s1_start, stage_one_end |-> s1_end,
         stage_two_start |-> s1_end, stage_two_end |-> s2_end,
         stage_three_start |-> s2_end, stage_three_end |-> s3_end,
         stage_four_start |-> s3_end,
         stage_four_end |-> IF Gt(s4_end, T(sim_time)) THEN NaN ELSE s4_end,
         cycle |-> part_row.cycle + 1,
         condemn |-> IF Gt(s4_end, T(sim_time)) THEN "yes" ELSE part_row.condemn]

\* the record _generate_new_cycle returns for the sampled durations d[1..4]
_generate_new_cycle(part_id, period, d, df) ==
    LET part_row == LastRowOf(df, part_id)
        start_time == part_row.stage_four_end
        cycle == part_row.cycle + 1
        condemn == part_row.condemn
        s1_start == start_time
        s1_end == Add(s1_start, d[1])
        s2_end == Add(s1_end, d[2])
        s3_end == Add(s2_end, d[3])
        s4_end == Add(s3_end, d[4])
    IN  [period |-> period, part_id |-> part_id,
         stage_one_duration |-> d[1], stage_two_duration |-> d[2],
         stage_three_duration |-> d[3], stage_four_duration |-> d[4],
         stage_one_start |-> s1_start, stage_one_end |-> s1_end,
         stage_two_start |-> s1_end, stage_two_end |-> s2_end,
         stage_three_start |-> s2_end, stage_three_end |-> s3_end,
         stage_four_start |-> s3_end,
         stage_four_end |-> IF Gt(s4_end, T(sim_time)) THEN NaN ELSE s4_end,
         cycle |-> cycle, condemn |-> condemn]

\* variant: stage_one_end >= period instead of stage_one_end > period
InclusiveEndActive(df, period) ==
    {i \in 1..Len(df) : /\ Leq(df[i].stage_one_start, T(period))
                        /\ Leq(T(period), df[i].stage_one_end)
                        /\ df[i].condemn = "no"}

\* variant: the stage_one_end > period condition is missing
StartedActive(df, period) ==
    {i \in 1..Len(df) : /\ Leq(df[i].stage_one_start, T(period))
                        /\ df[i].condemn = "no"}

\* the rows of sim_df counted as active in stage one at a period
ActiveStageOne(df, period) ==
    {i \in 1..Len(df) : /\ Leq(df[i].stage_one_start, T(period))
                        /\ Gt(df[i].stage_one_end, T(period))
                        /\ df[i].condemn = "no"}

\* variant: the baseline need is used whatever the overrides
BaselineNeedEntry(period, df) ==
    LET active_count == Cardinality(ActiveStageOne(df, period))
    IN  [period |-> period, active_stage_one |-> active_count,
         mission_need |-> mission_need,
         micap |-> Max(0, mission_need - active_count)]

\* variant: the shortfall is not clamped at 0
UnclampedEntry(period, df) ==
    LET current_need == DictGet(mission_need_overrides, period, mission_need)
        active_count == Cardinality(ActiveStageOne(df, period))
    IN  [period |-> period, active_stage_one |-> active_count,
         mission_need |-> current_need,
         micap |-> current_need - active_count]

\* the entry of _simulate_period for a period, counted on the table before
\* the step's regeneration
MicapEntry(period, df) ==
    LET current_need == DictGet(mission_need_overrides, period, mission_need)
        active_count == Cardinality(ActiveStageOne(df, period))
        micap == Max(0, current_need - active_count)
    IN  [period |-> period, active_stage_one |-> active_count,
         mission_need |-> current_need, micap |-> micap]

\* variant: stage_four_end <= period, every part that is past its end
LateEndingParts(active, period) ==
    SelectSeq(active, LAMBDA a : Leq(a.stage_four_end, T(period)) /\ a.stage_four_end # NaN)

\* active_parts_df[active_parts_df["stage_four_end"] == period]
EndingParts(active, period) ==
    SelectSeq(active, LAMBDA a : Eq(a.stage_four_end, T(period)))

\* variant: stage_four_end is left unrounded
UnroundedUpdate(df) == GroupTail(sort_values(NotCondemned(df)))

\* variant: every non-condemned row is kept, not the last of each part
UngroupedUpdate(df) == RoundEnds(sort_values(NotCondemned(df)))

\* the projection _simulate_period recomputes inline after the step
UpdateActiveParts(df) == RoundEnds(GroupTail(sort_values(NotCondemned(df))))

\* variant: the ends are rounded in the table itself, not in a copy
RoundingConcat(df, new_rows) == RoundEnds(df) \o new_rows

\* pd.concat([sim_df, pd.DataFrame(new_rows)], ignore_index=True)
concat(df, new_rows) == df \o new_rows

\* one iteration of the loop of process_simulation: _simulate_period, the
\* append to micap_log, then the progress bar and text (which may raise)
SimulatePeriod ==
    /\ pc = "looping"
    /\ loop_pos < Len(params_df)
    /\ LET period == params_df[loop_pos + 1].period
           micap_entry == MicapEntry(period, sim_df)
           ending_parts == EndingParts(active_parts_df, period)
           m == Len(ending_parts)
           row == PeriodParams(params_df, period)
       IN  IF m > 0 /\ \E i \in Stages : StageRaises(row, i)
           THEN /\ pc' = "error"
                /\ error' = StageFailure(row, FirstRaising(row)).err
                /\ rng' = rng + (FirstRaising(row) - 1)
                              + StageFailure(row, FirstRaising(row)).drawn
                /\ UNCHANGED <<sim_df, active_parts_df, micap_log, loop_pos>>
           ELSE \E d1 \in [1..m -> StageSamples(row, 1)],
                   d2 \in [1..m -> StageSamples(row, 2)],
                   d3 \in [1..m -> StageSamples(row, 3)],
                   d4 \in [1..m -> StageSamples(row, 4)] :
                    LET new_rows == [k \in 1..m |->
                            _generate_new_cycle(ending_parts[k].part_id, period,
                                <<d1[k].value, d2[k].value, d3[k].value, d4[k].value>>,
                                sim_df)]
                    IN  /\ sim_df' = concat(sim_df, new_rows)
                        /\ active_parts_df' = UpdateActiveParts(concat(sim_df, new_rows))
                        /\ micap_log' = Append(micap_log, micap_entry)
                        /\ loop_pos' = loop_pos + 1
                        /\ rng' = rng + SumDrawn(d1, m) + SumDrawn(d2, m)
                                      + SumDrawn(d3, m) + SumDrawn(d4, m)
                        /\ \E observer_ok \in BOOLEAN :
                              IF observer_ok
                              THEN UNCHANGED <<pc, error>>
                              ELSE pc' = "error" /\ error' = "ObserverError"
    /\ UNCHANGED <<config, params_df, mission_need_overrides, sample_call>>

\* variant: the loop is left one period early
EarlyReturn ==
    /\ pc = "looping"
    /\ loop_pos >= Len(params_df) - 1
    /\ pc' = "done"
    /\ UNCHANGED <<config, params_df, mission_need_overrides, sim_df, active_parts_df,
                   micap_log, loop_pos, rng, sample_call, error>>

\* process_simulation returns (sim_df, micap_log) when the loop is exhausted
ReturnResults ==
    /\ pc = "looping"
    /\ loop_pos = Len(params_df)
    /\ pc' = "done"
    /\ UNCHANGED <<config, params_df, mission_need_overrides, sim_df, active_parts_df,
                   micap_log, loop_pos, rng, sample_call, error>>

\* ---------------------------------------------------- the runs explored
\* stage configurations: the three lists handed to DFManager
AllOne ==       \* every stage lasts exactly one period
    [stage_dists |-> <<"normal", "normal", "normal", "normal">>,
     stage_param1 |-> <<T(1), T(1), T(1), T(1)>>, stage_param2 |-> <<0, 0, 0, 0>>]
Quick ==        \* a cycle lasts exactly one period
    [stage_dists |-> <<"normal", "normal", "normal", "normal">>,
     stage_param1 |-> <<T(1), 0, 0, 0>>, stage_param2 |-> <<0, 0, 0, 0>>]
NoisyFour ==    \* stage four is normal(0, 1): negative draws are clamped
    [stage_dists |-> <<"normal", "normal", "normal", "normal">>,
     stage_param1 |-> <<T(1), 0, 0, 0>>, stage_param2 |-> <<0, 0, 0, 1>>]
WeibullOne ==   \* stage one is weibull(1) * 1: a cycle may last no time at all
    [stage_dists |-> <<"weibull", "normal", "normal", "normal">>,
     stage_param1 |-> <<1, 0, 0, 0>>, stage_param2 |-> <<1, 0, 0, 0>>]
NoisyOne ==     \* stage one is normal(1, 1): parts end their cycles apart
    [stage_dists |-> <<"normal", "normal", "normal", "normal">>,
     stage_param1 |-> <<T(1), 0, 0, 0>>, stage_param2 |-> <<T(1), 0, 0, 0>>]
GammaThree ==   \* stage three names an unsupported distribution
    [stage_dists |-> <<"normal", "normal", "gamma", "normal">>,
     stage_param1 |-> <<T(1), 0, 0, 0>>, stage_param2 |-> <<0, 0, 0, 0>>]
ShortLists ==   \* three entries instead of four
    [stage_dists |-> <<"normal", "normal", "normal">>,
     stage_param1 |-> <<T(1), 0, 0>>, stage_param2 |-> <<0, 0, 0>>]
NoParam2 ==     \* stage_param2 is None, which __init__ turns into []
    [stage_dists |-> <<"normal", "normal", "normal", "normal">>,
     stage_param1 |-> <<T(1), 0, 0, 0>>, stage_param2 |-> <<>>]
ShortParam1 ==  \* only stage_param1 is short
    [stage_dists |-> <<"normal", "normal", "normal", "normal">>,
     stage_param1 |-> <<T(1), 0>>, stage_param2 |-> <<0, 0, 0, 0>>]

\* override directives; a period is a float instant, read through int()
OverridePalette ==
    {[period |-> T(1), stage |-> "Mission Need", value |-> 0],
     [period |-> T(2), stage |-> "Mission Need", value |-> MaxParts + 1],
     [period |-> T(2), stage |-> "Mission Need", value |-> 0],
     [period |-> T(2) + 1, stage |-> "Stage One Param 1", value |-> 1],
     [period |-> T(2), stage |-> "Stage One Param 1", value |-> 0],
     [period |-> T(1), stage |-> "Stage Four Param 1", value |-> T(1)],
     [period |-> T(1), stage |-> "Bogus", value |-> 7],
     [period |-> 0, stage |-> "Mission Need", value |-> MaxParts + 1],
     [period |-> T(MaxSimTime + 1), stage |-> "Stage One Param 1", value |-> 0],
     [stage |-> "Stage One Param 1", value |-> 0]}

RECURSIVE ListsUpTo(_)
ListsUpTo(n) ==
    IF n = 0 THEN {<<>>}
    ELSE ListsUpTo(n - 1)
           \cup {Append(l, o) : l \in {x \in ListsUpTo(n - 1) : Len(x) = n - 1},
                                o \in OverridePalette}

Run(sim, parts, need, stages, overrides) ==
    [sim_time |-> sim, total_parts |-> parts, mission_need |-> need,
     stage_dists |-> stages.stage_dists, stage_param1 |-> stages.stage_param1,
     stage_param2 |-> stages.stage_param2, custom_params |-> overrides]

\* the end-to-end scenario and the override scenario of the specification
ScenarioEndToEnd == Run(10, 1, 1, AllOne, <<>>)
ScenarioOverride ==
    Run(5, 5, 3, Quick, <<[period |-> T(4), stage |-> "Mission Need", value |-> 5]>>)

\* two parts whose cycles end in different periods
ScenarioTwoParts == Run(2, 2, 1, NoisyOne, <<>>)

\* an override that names an unsupported distribution from period 2 on
ScenarioGammaAtTwo ==
    Run(MaxSimTime, MaxParts, 1, Quick,
        <<[period |-> T(2), stage |-> "Stage Three Dist", value |-> "gamma"]>>)

Runs ==
    {Run(sim, parts, need, stages, <<>>) :
        sim \in 1..MaxSimTime, parts \in 0..MaxParts, need \in 0..MaxParts,
        stages \in {Quick, GammaThree, ShortLists, NoParam2, ShortParam1}}
    \cup {Run(sim, parts, 1, NoisyFour, <<>>) :
        sim \in 1..MaxSimTime, parts \in 0..(MaxParts - 1)}
    \cup {Run(sim, MaxParts, 1, NoisyFour, <<>>) : sim \in 1..(MaxSimTime - 1)}
    \cup {Run(sim, parts, 1, WeibullOne, <<>>) :
        sim \in 1..MaxSimTime, parts \in 0..1}
    \cup {Run(MaxSimTime, 1, 1, Quick, overrides) :
        overrides \in ListsUpTo(MaxOverrides)}
    \cup {Run(MaxSimTime, 1, 1, NoisyFour, overrides) :
        overrides \in ListsUpTo(MaxOverrides - 1)}
    \cup {ScenarioEndToEnd, ScenarioOverride, ScenarioTwoParts}

NoCall == [dist_name |-> "", val1 |-> 0, val2 |-> 0, value |-> NaN, err |-> "none",
           n |-> 0]

\* DFManager.__init__ with the arguments of a run
Constructed(run) ==
    /\ sim_time = run.sim_time
    /\ n_total_parts = run.total_parts
    /\ mission_need = run.mission_need
    /\ stage_dist = run.stage_dists
    /\ stage_dist_value_1 = run.stage_param1
    /\ stage_dist_value_2 = run.stage_param2
    /\ custom_params = run.custom_params
    /\ params_df = <<>>
    /\ mission_need_overrides = EmptyDict
    /\ sim_df = <<>>
    /\ active_parts_df = <<>>
    /\ micap_log = <<>>
    /\ loop_pos = 0
    /\ rng = 0
    /\ sample_call = NoCall
    /\ error = "none"
    /\ pc = "constructed"

Init ==
    \/ \E run \in Runs : Constructed(run)
    \/ Constructed(ScenarioGammaAtTwo)

Next ==
    \/ create_params_df
    \/ create_initial_sim_df
    \/ StartProcessing
    \/ SimulatePeriod
    \/ ReturnResults

Spec == Init /\ [][Next]_vars

\* ---------------------------------------------------- the sampler harness
DistNames == {"normal", "weibull", "gamma", "exponential"}
ParamValues == {-1, 0, 1, T(1)}

\* variant: np.random.seed(123) is reached, the stream starts over
ReseedAfter(pos, drawn) == 0

\* the position of the global numpy stream after a call that drew `drawn`
\* values; the seed statement after the returns is never reached
StreamAfter(pos, drawn) == pos + drawn

\* a direct call df_manager._sample_duration(dist_name, val1, val2)
SampleCall ==
    /\ pc = "constructed"
    /\ sample_call.n < MaxCalls
    /\ \E dist_name \in DistNames, val1 \in ParamValues, val2 \in ParamValues,
          u \in Draws :
          LET o == _sample_duration(dist_name, val1, val2, u)
          IN  /\ sample_call' = [dist_name |-> dist_name, val1 |-> val1, val2 |-> val2,
                                 value |-> o.value, err |-> o.err,
                                 n |-> sample_call.n + 1]
              /\ rng' = StreamAfter(rng, o.drawn)
    /\ UNCHANGED <<config, params_df, mission_need_overrides, sim_df, active_parts_df,
                   micap_log, loop_pos, error, pc>>

SamplerInit == Constructed(ScenarioEndToEnd)

SamplerSpec == SamplerInit /\ [][SampleCall]_vars

\* ============================================================ properties
IsEndToEnd ==
    /\ sim_time = ScenarioEndToEnd.sim_time
    /\ n_total_parts = ScenarioEndToEnd.total_parts
    /\ mission_need = ScenarioEndToEnd.mission_need
    /\ stage_dist = ScenarioEndToEnd.stage_dists
    /\ stage_dist_value_1 = ScenarioEndToEnd.stage_param1
    /\ stage_dist_value_2 = ScenarioEndToEnd.stage_param2
    /\ custom_params = <<>>

\* the edits of custom_params that set the mission need of period p
NeedEdits(p) ==
    {k \in 1..Len(custom_params) :
        /\ custom_params[k].stage = "Mission Need"
        /\ int(EditGet(custom_params[k], "period", 0)) = p}

\* an edit naming a whole period P of 1..sim_time, as the claims state it
NamesPeriod(edit, p) ==
    /\ "period" \in DOMAIN edit
    /\ edit.period = T(p)
    /\ p \in 1..sim_time

\* C1: every MICAP log entry has micap = max(0, mission_need - active_stage_one),
\* with mission_need the effective need of the entry's period, and micap is
\* never negative.
C1_MicapIsClampedShortfall ==
    \A k \in 1..Len(micap_log) :
        LET e == micap_log[k]
        IN  /\ e.mission_need = DictGet(mission_need_overrides, e.period, mission_need)
            /\ e.micap = Max(0, e.mission_need - e.active_stage_one)
            /\ e.micap >= 0

\* C1 witness: an entry whose need is below the active count (the clamp acts)
\* beside an entry with a positive shortfall.
C1_Witness ==
    /\ \E k \in 1..Len(micap_log) :
          /\ micap_log[k].mission_need < micap_log[k].active_stage_one
          /\ micap_log[k].micap = 0
    /\ \E k \in 1..Len(micap_log) : micap_log[k].micap > 0

\* C2 as stated: every "Mission Need" override {P, V} of the list with P in
\* 1..sim_time has its value V recorded in the entry of period P, and an entry
\* of a period with no such override records the baseline.
C2_Original ==
    pc = "done" =>
    /\ \A k \in 1..Len(custom_params), j \in 1..Len(micap_log) :
          (/\ custom_params[k].stage = "Mission Need"
           /\ NamesPeriod(custom_params[k], micap_log[j].period))
              => micap_log[j].mission_need = custom_params[k].value
    /\ \A j \in 1..Len(micap_log) :
          NeedEdits(micap_log[j].period) = {}
              => micap_log[j].mission_need = mission_need

\* C2 amended: the entry of period P records the value of the LAST "Mission
\* Need" override of the list for period P; an entry of a period with no such
\* override records the baseline mission need.
C2_LastNeedOverrideRecorded ==
    \A j \in 1..Len(micap_log) :
        LET p == micap_log[j].period
            edits == NeedEdits(p)
        IN  IF edits = {}
            THEN micap_log[j].mission_need = mission_need
            ELSE \E k \in edits :
                    /\ \A k2 \in edits : k2 <= k
                    /\ micap_log[j].mission_need = custom_params[k].value

\* C2 witness: two overrides of the same period with different values, the
\* entry of that period logged, and an entry of another period logged too.
C2_Witness ==
    /\ pc = "done"
    /\ \E j \in 1..Len(micap_log), k1 \in 1..Len(custom_params),
          k2 \in 1..Len(custom_params) :
          /\ k1 < k2
          /\ k1 \in NeedEdits(micap_log[j].period)
          /\ k2 \in NeedEdits(micap_log[j].period)
          /\ NamesPeriod(custom_params[k1], micap_log[j].period)
          /\ custom_params[k1].value # custom_params[k2].value
          /\ micap_log[j].mission_need = custom_params[k2].value
    /\ \E j \in 1..Len(micap_log) :
          /\ NeedEdits(micap_log[j].period) = {}
          /\ micap_log[j].mission_need = mission_need

\* C3: in the end-to-end scenario the first record has the stage intervals
\* [1,2], [2,3], [3,4], [4,5]; no step before period 5 appends a record, and
\* the step of period 5 appends a record of part 1 with cycle 2 and
\* stage_one_start = 5.
C3_EndToEndRegeneratesAtFive ==
    (IsEndToEnd /\ sim_df # <<>>) =>
        /\ sim_df[1].stage_one_start = T(1) /\ sim_df[1].stage_one_end = T(2)
        /\ sim_df[1].stage_two_start = T(2) /\ sim_df[1].stage_two_end = T(3)
        /\ sim_df[1].stage_three_start = T(3) /\ sim_df[1].stage_three_end = T(4)
        /\ sim_df[1].stage_four_start = T(4) /\ sim_df[1].stage_four_end = T(5)
        /\ loop_pos < 5 => Len(sim_df) = 1
        /\ loop_pos >= 5 =>
              /\ Len(sim_df) >= 2
              /\ sim_df[2].period = 5
              /\ sim_df[2].part_id = sim_df[1].part_id
              /\ sim_df[2].cycle = 2
              /\ sim_df[2].stage_one_start = T(5)

\* C3 witness: the state right after the step of period 5.
C3_Witness == IsEndToEnd /\ loop_pos = 5 /\ Len(sim_df) = 2 /\ sim_df[2].cycle = 2

\* C4 as stated: in the end-to-end scenario micap is 0 for each of the periods
\* 1..4, and 1 for every period in which the part is not in stage 1.
C4_Original ==
    (IsEndToEnd /\ pc = "done") =>
        \A j \in 1..Len(micap_log) :
            /\ micap_log[j].period \in 1..4 => micap_log[j].micap = 0
            /\ ActiveStageOne(sim_df, micap_log[j].period) = {}
                  => micap_log[j].micap = 1

\* C4 amended: in the end-to-end scenario micap is 0 for period 1 and 1 for
\* each of the periods 2, 3 and 4 (the part leaves stage 1 at instant 2), and
\* micap is 1 for every period in which the part is not in stage 1.
C4_EndToEndMicap ==
    IsEndToEnd =>
        \A j \in 1..Len(micap_log) :
            /\ micap_log[j].period = 1 => micap_log[j].micap = 0
            /\ micap_log[j].period \in 2..4 => micap_log[j].micap = 1
            /\ ActiveStageOne(sim_df, micap_log[j].period) = {}
                  => micap_log[j].micap = 1

\* C4 witness: the scenario has run to its end and logged all ten periods.
C4_Witness ==
    /\ IsEndToEnd /\ pc = "done" /\ Len(micap_log) = 10
    /\ micap_log[1].micap = 0 /\ micap_log[2].micap = 1

\* C5: once create_params_df has returned, the parameter table has exactly
\* sim_time rows and row i carries period i, whatever the override list.
C5_ParamsTableOneRowPerPeriod ==
    (pc # "constructed" /\ error # "IndexError") =>
        /\ Len(params_df) = sim_time
        /\ \A i \in 1..Len(params_df) : params_df[i].period = i

\* C5 witness: overrides were applied and changed a cell of the table.
C5_Witness ==
    /\ pc = "params_built"
    /\ Len(custom_params) = MaxOverrides
    /\ params_df # BaseTable
    /\ Len(params_df) = sim_time

\* C6: right after initialization the lifecycle table has one record per part
\* id 1..total_parts, each with cycle 1, condemn "no", stage_one_start = 1,
\* end[i] = start[i] + duration[i] and start[i+1] = end[i] for every stage.
C6_InitialTableChained ==
    pc = "initialized" =>
        /\ Len(sim_df) = n_total_parts
        /\ \A p \in 1..Len(sim_df) :
              LET r == sim_df[p]
              IN  /\ r.part_id = p /\ r.cycle = 1 /\ r.condemn = "no"
                  /\ r.stage_one_start = T(1)
                  /\ r.stage_one_end = r.stage_one_start + r.stage_one_duration
                  /\ r.stage_two_start = r.stage_one_end
                  /\ r.stage_two_end = r.stage_two_start + r.stage_two_duration
                  /\ r.stage_three_start = r.stage_two_end
                  /\ r.stage_three_end = r.stage_three_start + r.stage_three_duration
                  /\ r.stage_four_start = r.stage_three_end
                  /\ r.stage_four_end = r.stage_four_start + r.stage_four_duration

\* C6 witness: a full population initialized with durations that differ
\* between two parts and a stage of positive length.
C6_Witness ==
    /\ pc = "initialized"
    /\ n_total_parts = MaxParts
    /\ \E p \in 1..Len(sim_df), q \in 1..Len(sim_df) :
          /\ sim_df[p].stage_four_duration # sim_df[q].stage_four_duration
          /\ sim_df[p].stage_one_duration > 0

\* the part ids of a table are pairwise different
OneRowPerPart(df) ==
    \A i \in 1..Len(df), j \in 1..Len(df) : i # j => df[i].part_id # df[j].part_id

\* C7: in every state the active-part projection (the one the run holds, and
\* create_active_parts_df of the lifecycle table) has at most one record per
\* part id and no record with condemn = "yes".
C7_ProjectionOnePerPartNoneCondemned ==
    /\ OneRowPerPart(active_parts_df)
    /\ \A i \in 1..Len(active_parts_df) : active_parts_df[i].condemn # "yes"
    /\ OneRowPerPart(create_active_parts_df(sim_df))
    /\ \A i \in 1..Len(create_active_parts_df(sim_df)) :
          create_active_parts_df(sim_df)[i].condemn # "yes"

\* C7 witness: two parts, one of them with several records in the table, and
\* a projection of exactly the two parts.
C7_Witness ==
    /\ pc = "looping"
    /\ Len(sim_df) > n_total_parts
    /\ n_total_parts = MaxParts
    /\ Len(active_parts_df) = n_total_parts

\* C8: whenever the run holds a projection, the one recomputed inline by the
\* period step equals create_active_parts_df of the same lifecycle table.
C8_InlineProjectionAgrees ==
    pc \in {"looping", "done", "error"} =>
        active_parts_df = create_active_parts_df(sim_df)

\* C8 witness: a step has regenerated a part and the projection holds a
\* stage-4 end that rounding changed.
C8_Witness ==
    /\ pc = "looping"
    /\ loop_pos > 0
    /\ Len(sim_df) > n_total_parts
    /\ \E i \in 1..Len(active_parts_df), j \in 1..Len(sim_df) :
          /\ sim_df[j].part_id = active_parts_df[i].part_id
          /\ sim_df[j].cycle = active_parts_df[i].cycle
          /\ sim_df[j].stage_four_end # active_parts_df[i].stage_four_end

\* C9: every duration of every lifecycle record is >= 0, and every stage's
\* defined end is >= its start.
C9_DurationsNonNegative ==
    \A i \in 1..Len(sim_df) :
        LET r == sim_df[i]
        IN  /\ r.stage_one_duration >= 0 /\ r.stage_two_duration >= 0
            /\ r.stage_three_duration >= 0 /\ r.stage_four_duration >= 0
            /\ r.stage_one_end # NaN => r.stage_one_end >= r.stage_one_start
            /\ r.stage_two_end # NaN => r.stage_two_end >= r.stage_two_start
            /\ r.stage_three_end # NaN => r.stage_three_end >= r.stage_three_start
            /\ r.stage_four_end # NaN => r.stage_four_end >= r.stage_four_start

\* C9 witness: a stage whose draws may be negative (normal with mean 0 and a
\* positive deviation) was sampled to 0 in one record and above 0 in another.
C9_Witness ==
    /\ Len(stage_dist) = 4 /\ Len(stage_dist_value_1) = 4 /\ Len(stage_dist_value_2) = 4
    /\ stage_dist[4] = "normal" /\ stage_dist_value_1[4] = 0 /\ stage_dist_value_2[4] > 0
    /\ \E i \in 1..Len(sim_df), j \in 1..Len(sim_df) :
          /\ sim_df[i].stage_four_duration = 0
          /\ sim_df[j].stage_four_duration > 0
          /\ sim_df[j].cycle > 1

Supported == {"normal", "weibull"}

\* a row whose four stages can all be sampled
RowSamplable(row) ==
    \A i \in Stages :
        /\ row[DistCol[i]] \in Supported
        /\ row[DistCol[i]] = "normal" => row[Value2Col[i]] >= 0
        /\ row[DistCol[i]] = "weibull" => row[Value1Col[i]] >= 0

AnyListShort ==
    Len(stage_dist) < 4 \/ Len(stage_dist_value_1) < 4 \/ Len(stage_dist_value_2) < 4

\* a valid configuration: three lists of four entries and, overrides applied,
\* a supported distribution with parameters numpy accepts in every row
ValidConfiguration ==
    /\ ~AnyListShort
    /\ LET df == _apply_custom_params(BaseTable, EmptyDict, custom_params).df
       IN  \A i \in 1..Len(df) : RowSamplable(df[i])

\* how far run_simulation has come; it never exceeds sim_time + 4
RunMeasure ==
    CASE pc = "constructed" -> 0
      [] pc = "params_built" -> 1
      [] pc = "initialized" -> 2
      [] pc = "looping" -> 3 + loop_pos
      [] OTHER -> 4 + sim_time

C11_State ==
    /\ \A j \in 1..Len(micap_log) : micap_log[j].period = j
    /\ pc = "looping" =>
          /\ Len(micap_log) = loop_pos
          /\ Len(params_df) = sim_time
          /\ loop_pos <= sim_time
          /\ loop_pos = sim_time => ENABLED ReturnResults
    /\ pc = "done" => Len(micap_log) = sim_time
    /\ ValidConfiguration => error \in {"none", "ObserverError"}

\* C11: a run with a valid configuration steps the periods 1, 2, ..., sim_time
\* in increasing order, each once, and terminates: the log holds the periods
\* 1..k in order after k steps, every step of the run advances a measure
\* bounded by sim_time + 4, the loop is left exactly when the last period has
\* been stepped, the engine itself never aborts a valid run, and the returned
\* log has sim_time entries.
C11_RunStepsEveryPeriodOnce ==
    [](C11_State) /\ [][RunMeasure' > RunMeasure /\ RunMeasure' <= 4 + sim_time]_vars

\* C11 witness: a valid run of the longest horizon has returned, after a
\* regeneration.
C11_Witness ==
    /\ pc = "done"
    /\ ValidConfiguration
    /\ sim_time = MaxSimTime
    /\ Len(micap_log) = sim_time
    /\ Len(sim_df) > n_total_parts

\* C12: a failure of the progress observer does not abort the run.
C12_ObserverFailureDoesNotAbort ==
    error = "ObserverError" => pc \in {"looping", "done"}

\* C13: with a stage-configuration list of fewer than four entries the run
\* fails with an error in create_params_df: no table is built, nothing is
\* sampled, no period is stepped, no record and no entry is produced.
C13_ShortListsFailFast ==
    AnyListShort =>
        /\ pc \in {"constructed", "error"}
        /\ pc = "error" => error = "IndexError"
        /\ pc = "constructed" => ENABLED create_params_df
        /\ params_df = <<>> /\ sim_df = <<>> /\ active_parts_df = <<>>
        /\ micap_log = <<>> /\ rng = 0 /\ loop_pos = 0

\* C13 witness: the run has failed with only the second parameter list short.
C13_Witness ==
    /\ pc = "error" /\ error = "IndexError"
    /\ Len(stage_dist) = 4 /\ Len(stage_dist_value_1) = 4
    /\ Len(stage_dist_value_2) < 4
    /\ n_total_parts > 0

\* the label that addresses each stage column
LabelOf ==
    [stage_one_dist |-> "Stage One Dist",
     stage_one_dist_value_1 |-> "Stage One Param 1",
     stage_one_dist_value_2 |-> "Stage One Param 2",
     stage_two_dist |-> "Stage Two Dist",
     stage_two_dist_value_1 |-> "Stage Two Param 1",
     stage_two_dist_value_2 |-> "Stage Two Param 2",
     stage_three_dist |-> "Stage Three Dist",
     stage_three_dist_value_1 |-> "Stage Three Param 1",
     stage_three_dist_value_2 |-> "Stage Three Param 2",
     stage_four_dist |-> "Stage Four Dist",
     stage_four_dist_value_1 |-> "Stage Four Param 1",
     stage_four_dist_value_2 |-> "Stage Four Param 2"]
KnownLabels == {"Mission Need"} \cup {LabelOf[c] : c \in DOMAIN LabelOf}

UnknownEdits == {k \in 1..Len(custom_params) : custom_params[k].stage \notin KnownLabels}
KnownLabel(edit) == edit.stage \in KnownLabels
WithoutUnknown == SelectSeq(custom_params, KnownLabel)

\* the parameter table has been built
ParamsBuilt == pc \in {"params_built", "initialized", "looping", "done"} \/ params_df # <<>>

CellEdits(p, col) ==
    {k \in 1..Len(custom_params) :
        /\ custom_params[k].stage = LabelOf[col]
        /\ int(EditGet(custom_params[k], "period", 0)) = p}
LastOf(ks) == CHOOSE k \in ks : \A j \in ks : j <= k

\* C15: the last override wins: a cell addressed by overrides holds the value
\* of the last of them in list order and every other cell its base value, and
\* the need mapping holds, for exactly the periods addressed by "Mission Need"
\* overrides, the value of the last of them.
C15_LastOverrideWins ==
    ParamsBuilt =>
        /\ IF custom_params = <<>>
           THEN params_df = BaseTable
           ELSE LET base == BaseTable
                IN  \A i \in 1..Len(params_df), col \in DOMAIN LabelOf :
                        LET ks == CellEdits(params_df[i].period, col)
                        IN  IF ks = {}
                            THEN params_df[i][col] = base[i][col]
                            ELSE params_df[i][col] = custom_params[LastOf(ks)].value
        /\ \A p \in DOMAIN mission_need_overrides :
              /\ NeedEdits(p) # {}
              /\ mission_need_overrides[p] = custom_params[LastOf(NeedEdits(p))].value
        /\ \A k \in 1..Len(custom_params) :
              custom_params[k].stage = "Mission Need"
                  => int(EditGet(custom_params[k], "period", 0))
                         \in DOMAIN mission_need_overrides

\* C15 witness: a table built from two overrides of one cell, or of one
\* period's need, with different values.
C15_Witness ==
    /\ pc = "params_built"
    /\ Len(custom_params) = 2
    /\ custom_params[1].value # custom_params[2].value
    /\ \/ \E i \in 1..Len(params_df), col \in DOMAIN LabelOf :
             CellEdits(params_df[i].period, col) = {1, 2}
       \/ \E p \in 1..sim_time : NeedEdits(p) = {1, 2}

\* the rows of the lifecycle table appended by a period's step
Appended == {i \in 1..Len(sim_df) : sim_df[i].period # NaN}
\* the rows of a part, and the row of a part that precedes row i
RowsOf(part_id) == {i \in 1..Len(sim_df) : sim_df[i].part_id = part_id}
Previous(i) == LastOf({j \in RowsOf(sim_df[i].part_id) : j < i})
Values(samples) == {o.value : o \in samples}

\* C16: when the run has returned, every lifecycle record with a defined
\* stage-4 end that rounds to a period of 1..sim_time has a successor record
\* of the same part with cycle one higher.
C16_EveryCompletedCycleRegenerated ==
    pc = "done" =>
        \A i \in 1..Len(sim_df) :
            (/\ sim_df[i].stage_four_end # NaN
             /\ \E p \in 1..sim_time : round(sim_df[i].stage_four_end) = T(p))
                => \E j \in RowsOf(sim_df[i].part_id) :
                      sim_df[j].cycle = sim_df[i].cycle + 1

\* C17: a record appended by the step of period p has the cycle of the part's
\* previous record plus one, that record's condemn flag, its stage-one start
\* at that record's unrounded stage-4 end, each of the stages one to three
\* ending at its start plus its duration and starting the next, and durations
\* that are samples of the distributions of parameter-table row p.
C17_RegeneratedRecordFields ==
    \A i \in Appended :
        LET r == sim_df[i]
        IN  /\ \E j \in RowsOf(r.part_id) : j < i
            /\ LET prev == sim_df[Previous(i)]
               IN  /\ r.cycle = prev.cycle + 1
                   /\ r.condemn = prev.condemn
                   /\ prev.stage_four_end # NaN
                   /\ r.stage_one_start = prev.stage_four_end
            /\ r.stage_one_end = r.stage_one_start + r.stage_one_duration
            /\ r.stage_two_start = r.stage_one_end
            /\ r.stage_two_end = r.stage_two_start + r.stage_two_duration
            /\ r.stage_three_start = r.stage_two_end
            /\ r.stage_three_end = r.stage_three_start + r.stage_three_duration
            /\ r.stage_four_start = r.stage_three_end
            /\ r.period \in 1..Len(params_df)
            /\ params_df[r.period].period = r.period
            /\ r.stage_one_duration \in Values(StageSamples(params_df[r.period], 1))
            /\ r.stage_two_duration \in Values(StageSamples(params_df[r.period], 2))
            /\ r.stage_three_duration \in Values(StageSamples(params_df[r.period], 3))
            /\ r.stage_four_duration \in Values(StageSamples(params_df[r.period], 4))

\* C17 witness: a record appended at a period whose row gives stage one other
\* samples than row 1 and than the row of the period of the previous record.
C17_Witness ==
    \E i \in Appended :
        /\ sim_df[i].period > 1
        /\ Values(StageSamples(params_df[sim_df[i].period], 1))
              # Values(StageSamples(params_df[1], 1))
        /\ sim_df[i].stage_one_end # NaN

\* C18: a regenerated record whose stage-3 end plus stage-4 duration exceeds
\* sim_time is stored with an undefined stage-4 end, any other with the end as
\* computed; a record with an undefined end has no later record of its part,
\* so a part has at most one such record and it is its highest cycle.
C18_OpenEndPastHorizon ==
    /\ \A i \in Appended :
          LET r == sim_df[i]
              computed == r.stage_three_end + r.stage_four_duration
          IN  r.stage_four_end = IF computed > T(sim_time) THEN NaN ELSE computed
    /\ \A i \in 1..Len(sim_df) :
          sim_df[i].stage_four_end = NaN =>
              \A j \in RowsOf(sim_df[i].part_id) :
                  j # i => (/\ j < i
                            /\ sim_df[j].cycle < sim_df[i].cycle
                            /\ sim_df[j].stage_four_end # NaN)

\* C18 witness: the run has returned with a record left open by a step before
\* the last period, beside regenerated records that end at the horizon or
\* before it.
C18_Witness ==
    /\ pc = "done"
    /\ \E i \in Appended :
          /\ sim_df[i].stage_four_end = NaN
          /\ sim_df[i].period < sim_time
    /\ \E i \in Appended : sim_df[i].stage_four_end # NaN

\* a projection has been computed from a populated lifecycle table
HasProjection == pc \in {"looping", "done"} \/ (pc = "error" /\ sim_df # <<>>)

\* C19: whenever there is a projection, each part id of 1..total_parts has
\* exactly one record in it, that record carries the part's highest cycle
\* number, and it is the part's last row of the lifecycle table, the row
\* _generate_new_cycle reads as the predecessor.
C19_ProjectionIsLatestCycle ==
    HasProjection =>
        \A part_id \in 1..n_total_parts :
            LET rows == {k \in 1..Len(active_parts_df) :
                            active_parts_df[k].part_id = part_id}
            IN  /\ Cardinality(rows) = 1
                /\ \A k \in rows :
                      /\ \A j \in RowsOf(part_id) :
                            sim_df[j].cycle <= active_parts_df[k].cycle
                      /\ active_parts_df[k].cycle = LastRowOf(sim_df, part_id).cycle
                      /\ RoundEnds(<<LastRowOf(sim_df, part_id)>>)[1] = active_parts_df[k]

\* C19 witness: the projection of a table in which a part has three cycles,
\* the last with an undefined end, and the projection of a table in which two
\* records of a part have the same stage-4 end.
C19_Witness ==
    /\ HasProjection
    /\ \E i \in Appended :
          \/ sim_df[i].stage_four_end = NaN /\ sim_df[i].cycle = 3
          \/ sim_df[i].stage_four_end = sim_df[Previous(i)].stage_four_end

\* C20: when the run has returned, the active count logged for each period p
\* is the number of non-condemned records of the returned lifecycle table
\* with stage_one_start <= p < stage_one_end.
C20_LogAgreesWithReturnedTable ==
    pc = "done" =>
        \A j \in 1..Len(micap_log) :
            micap_log[j].active_stage_one
                = Cardinality({i \in 1..Len(sim_df) :
                      /\ sim_df[i].condemn = "no"
                      /\ sim_df[i].stage_one_start <= T(micap_log[j].period)
                      /\ T(micap_log[j].period) < sim_df[i].stage_one_end})

\* a step of the period loop, and the period it steps
IsPeriodStep == pc = "looping" /\ loop_pos' = loop_pos + 1
StepPeriod == params_df[loop_pos + 1].period
ActiveRowsOf(active, part_id) ==
    {k \in 1..Len(active) : active[k].part_id = part_id}

\* C21: the lifecycle table is append-only: over every step of the run taken
\* once the table exists, each record is still there, at its place and with
\* every field as it was, the unrounded stage-4 end included.
C21_TableAppendOnly ==
    [][sim_df # <<>> =>
          /\ Len(sim_df') >= Len(sim_df)
          /\ \A i \in 1..Len(sim_df) : sim_df'[i] = sim_df[i]]_vars

\* C21 witness: after a step that appended a record, the table holds a
\* stage-4 end that is no whole period and that the projection shows rounded.
C21_Witness ==
    /\ pc = "looping"
    /\ Appended # {}
    /\ \E i \in 1..Len(sim_df), k \in 1..Len(active_parts_df) :
          /\ sim_df[i].stage_four_end # NaN
          /\ round(sim_df[i].stage_four_end) # sim_df[i].stage_four_end
          /\ active_parts_df[k].part_id = sim_df[i].part_id
          /\ active_parts_df[k].cycle = sim_df[i].cycle
          /\ active_parts_df[k].stage_four_end = round(sim_df[i].stage_four_end)

\* C22: in the step of period p a part whose projected stage-4 end is not p,
\* undefined ends included, gets no new record and keeps its projection
\* record; when no part ends at p the table and the projection are unchanged.
C22_OtherPartsUntouched ==
    [][IsPeriodStep =>
          /\ \A part_id \in 1..n_total_parts :
                (\A k \in ActiveRowsOf(active_parts_df, part_id) :
                    active_parts_df[k].stage_four_end # T(StepPeriod))
                => /\ {i \in 1..Len(sim_df') : sim_df'[i].part_id = part_id}
                         = RowsOf(part_id)
                   /\ {active_parts_df'[k] : k \in ActiveRowsOf(active_parts_df', part_id)}
                         = {active_parts_df[k] : k \in ActiveRowsOf(active_parts_df, part_id)}
          /\ (\A k \in 1..Len(active_parts_df) :
                    active_parts_df[k].stage_four_end # T(StepPeriod))
                => (sim_df' = sim_df /\ active_parts_df' = active_parts_df)]_vars

\* C22 witness: a step has regenerated one part beside a part that was not at
\* its end, one of whose records has an end earlier than the period stepped.
C22_Witness ==
    /\ pc = "looping" /\ loop_pos >= 2
    /\ \E i \in Appended :
          /\ sim_df[i].period = loop_pos
          /\ \E k \in 1..Len(active_parts_df) :
                /\ active_parts_df[k].part_id # sim_df[i].part_id
                /\ active_parts_df[k].stage_four_end # NaN
                /\ active_parts_df[k].stage_four_end < T(loop_pos)

\* the cells of the parameter table that differ from the base table
ChangedCells ==
    {c \in (1..Len(params_df)) \X ParamColumns :
        params_df[c[1]][c[2]] # BaseTable[c[1]][c[2]]}
StageEdits ==
    {k \in 1..Len(custom_params) : custom_params[k].stage \in (KnownLabels \ {"Mission Need"})}

\* C23: a stage-parameter override changes the one cell (row P, column of its
\* label) and no other: every changed cell is the cell of a stage-parameter
\* override, a single override sets its cell to its value, and a "Mission
\* Need" override changes no cell and is recorded only in the need mapping,
\* which records nothing else.
C23_OverrideChangesOneCell ==
    (ParamsBuilt /\ Len(params_df) = sim_time) =>
        /\ \A c \in ChangedCells :
              \E k \in StageEdits :
                  /\ "period" \in DOMAIN custom_params[k]
                  /\ custom_params[k].period \div Scale = c[1]
                  /\ LabelOf[c[2]] = custom_params[k].stage
        /\ StageEdits = {} => ChangedCells = {}
        /\ \A k \in StageEdits :
              (/\ Len(custom_params) = 1
               /\ "period" \in DOMAIN custom_params[k]
               /\ custom_params[k].period \div Scale \in 1..sim_time)
                  => \E col \in DOMAIN LabelOf :
                        /\ LabelOf[col] = custom_params[k].stage
                        /\ params_df[custom_params[k].period \div Scale][col]
                              = custom_params[k].value
        /\ \A p \in DOMAIN mission_need_overrides : NeedEdits(p) # {}

\* C23 witness: a table built from one stage-parameter override of a row that
\* is not the last, with exactly one cell changed, and a table built from
\* "Mission Need" overrides only.
C23_Witness ==
    /\ pc = "params_built"
    /\ \/ /\ Len(custom_params) = 1 /\ StageEdits = {1}
          /\ Cardinality(ChangedCells) = 1
          /\ \E c \in ChangedCells : c[1] < sim_time
       \/ /\ Len(custom_params) = 2 /\ StageEdits = {}
          /\ DOMAIN mission_need_overrides # {}

\* C24 as stated: of two records of a part, the one of the lower cycle has the
\* strictly earlier stage-4 end, when both ends are defined.
C24_Original ==
    \A i \in 1..Len(sim_df), j \in 1..Len(sim_df) :
        (/\ sim_df[i].part_id = sim_df[j].part_id
         /\ sim_df[i].cycle < sim_df[j].cycle
         /\ sim_df[i].stage_four_end # NaN /\ sim_df[j].stage_four_end # NaN)
            => sim_df[i].stage_four_end < sim_df[j].stage_four_end

\* C24 amended: of two records of a part, the one of the lower cycle has a
\* stage-4 end that is earlier or the same, when both ends are defined.
C24_EndsNeverDecrease ==
    \A i \in 1..Len(sim_df), j \in 1..Len(sim_df) :
        (/\ sim_df[i].part_id = sim_df[j].part_id
         /\ sim_df[i].cycle < sim_df[j].cycle
         /\ sim_df[i].stage_four_end # NaN /\ sim_df[j].stage_four_end # NaN)
            => sim_df[i].stage_four_end <= sim_df[j].stage_four_end

\* C24 witness: a part has a cycle with a later end than its first and two
\* cycles that end at the same instant.
C24_Witness ==
    \E i \in Appended, j \in Appended :
        /\ sim_df[i].part_id = sim_df[j].part_id
        /\ sim_df[i].stage_four_end # NaN
        /\ sim_df[Previous(i)].stage_four_end = sim_df[i].stage_four_end
        /\ sim_df[j].stage_four_end # NaN
        /\ sim_df[Previous(j)].stage_four_end < sim_df[j].stage_four_end

\* C25: every record of the lifecycle table has condemn = "no", so the
\* non-condemned filter of the count and of the projection removes nothing.
C25_NeverCondemned ==
    /\ \A i \in 1..Len(sim_df) : sim_df[i].condemn = "no"
    /\ NotCondemned(sim_df) = sim_df
    /\ \A k \in 1..Len(active_parts_df) : active_parts_df[k].condemn = "no"

\* C25 witness: a returned table with initial and regenerated records, one of
\* them left open at the horizon.
C25_Witness ==
    /\ pc = "done"
    /\ n_total_parts >= 1
    /\ \E i \in Appended : sim_df[i].stage_four_end = NaN
    /\ \E i \in Appended : sim_df[i].stage_four_end # NaN

\* C26: no call of the sampler, successful or failing, resets the stream: a
\* call that returns a duration moves the position forward by the one value
\* it drew, a call that fails leaves the position where it was.
C26_SamplerNeverReseeds ==
    [][sample_call'.n = sample_call.n + 1 =>
          /\ rng' >= rng
          /\ rng' = rng + (IF sample_call'.err = "none" THEN 1 ELSE 0)]_vars

\* C26 witness: a failing call has followed two calls that drew.
C26_Witness ==
    /\ sample_call.n = 3
    /\ sample_call.err # "none"
    /\ rng = 2

\* the base configuration names a distribution outside the supported set
BaseUnsupported ==
    /\ ~AnyListShort
    /\ \E i \in Stages : stage_dist[i] \notin Supported

\* C27: with an unsupported distribution in the base configuration the run is
\* fatal whatever total_parts and sim_time: it ends with the unsupported-
\* distribution error during initialization, no period is stepped and neither
\* a table nor a log is produced.
C27_UnsupportedAlwaysFatal ==
    BaseUnsupported =>
        /\ pc \in {"constructed", "params_built", "error"}
        /\ pc = "error" => error = "UnsupportedDistribution"
        /\ sim_df = <<>> /\ micap_log = <<>> /\ loop_pos = 0

\* the stage-one window of row i holds the instant of period p
InWindow(i, p) ==
    sim_df[i].stage_one_start <= T(p) /\ T(p) < sim_df[i].stage_one_end

\* C28: two records of one part have disjoint stage-one windows [start, end),
\* so in every period a part has at most one record in its window, and every
\* logged active count lies in 0..total_parts.
C28_StageOneWindowsDisjoint ==
    /\ \A i \in 1..Len(sim_df), j \in 1..Len(sim_df) :
          (i # j /\ sim_df[i].part_id = sim_df[j].part_id)
              => ~(/\ Max(sim_df[i].stage_one_start, sim_df[j].stage_one_start)
                        < sim_df[i].stage_one_end
                   /\ Max(sim_df[i].stage_one_start, sim_df[j].stage_one_start)
                        < sim_df[j].stage_one_end)
    /\ \A p \in 1..sim_time, part_id \in 1..n_total_parts :
          Cardinality({i \in RowsOf(part_id) : InWindow(i, p)}) <= 1
    /\ \A j \in 1..Len(micap_log) :
          /\ 0 <= micap_log[j].active_stage_one
          /\ micap_log[j].active_stage_one <= n_total_parts

\* C28 witness: a part has two records with stage-one windows that are not
\* empty, the later one beginning where an earlier cycle ended, and the log
\* has an entry that counts every part.
C28_Witness ==
    /\ n_total_parts >= 1
    /\ \E i \in Appended :
          /\ sim_df[i].stage_one_end > sim_df[i].stage_one_start
          /\ sim_df[Previous(i)].stage_one_end > sim_df[Previous(i)].stage_one_start
    /\ \E j \in 1..Len(micap_log) : micap_log[j].active_stage_one = n_total_parts

\* the number of rows of a part in a table
CountOf(df, part_id) == Cardinality({i \in 1..Len(df) : df[i].part_id = part_id})

C29_State ==
    \A part_id \in 1..n_total_parts :
        /\ \A i \in RowsOf(part_id), j \in RowsOf(part_id) :
              sim_df[i].cycle = sim_df[j].cycle => i = j
        /\ {sim_df[i].cycle : i \in RowsOf(part_id)} = 1..Cardinality(RowsOf(part_id))

\* C29: a period step appends exactly one record for each part of the
\* projection whose rounded stage-4 end is the period and none for any other
\* part, so at most total_parts records in all; and in every state the cycle
\* numbers of a part's records are 1, 2, ..., k, each once.
C29_OneRecordPerPartAndStep ==
    /\ [](C29_State)
    /\ [][IsPeriodStep =>
             /\ Len(sim_df') - Len(sim_df) <= n_total_parts
             /\ \A part_id \in 1..n_total_parts :
                   CountOf(sim_df', part_id) - CountOf(sim_df, part_id)
                       = IF \E k \in ActiveRowsOf(active_parts_df, part_id) :
                               active_parts_df[k].stage_four_end = T(StepPeriod)
                         THEN 1 ELSE 0]_vars

\* C29 witness: a table in which a part has three cycles, after a step that
\* appended a record for each of two parts.
C29_Witness ==
    \/ \E i \in Appended : sim_df[i].cycle = 3
    \/ \E i \in Appended, j \in Appended :
          /\ sim_df[i].part_id # sim_df[j].part_id
          /\ sim_df[i].period = sim_df[j].period

\* an override whose period names no row of the table
OutOfRange(edit) ==
    \/ "period" \notin DOMAIN edit
    \/ edit.period < T(1)
    \/ edit.period >= T(sim_time + 1)
InRange(edit) == ~OutOfRange(edit)
InRangeEdits == SelectSeq(custom_params, InRange)

\* C30: overrides with a period outside 1..sim_time raise no error and have
\* no effect: the table is the one built from the other overrides alone, a
\* "Mission Need" override among them is stored in the mapping, and the need
\* of every period of 1..sim_time, as the mapping gives it and as the log
\* records it, is the one the other overrides alone give.
C30_OutOfRangeOverrideNoEffect ==
    /\ ~AnyListShort => error # "IndexError"
    /\ ParamsBuilt =>
          LET rest == _apply_custom_params(BaseTable, EmptyDict, InRangeEdits)
          IN  /\ params_df = rest.df
              /\ \A k \in 1..Len(custom_params) :
                    (OutOfRange(custom_params[k]) /\ custom_params[k].stage = "Mission Need")
                        => \E p \in DOMAIN mission_need_overrides : p \notin 1..sim_time
              /\ \A p \in 1..sim_time :
                    DictGet(mission_need_overrides, p, mission_need)
                        = DictGet(rest.mission_need_overrides, p, mission_need)
              /\ \A j \in 1..Len(micap_log) :
                    micap_log[j].mission_need
                        = DictGet(rest.mission_need_overrides, micap_log[j].period,
                                  mission_need)

\* C30 witness: a run has returned whose overrides are a "Mission Need"
\* override of period 0 and a stage-parameter override with a period past
\* the horizon or with no period.
C30_Witness ==
    /\ pc = "done"
    /\ Len(custom_params) = 2
    /\ \E k \in 1..2 : OutOfRange(custom_params[k]) /\ custom_params[k].stage = "Mission Need"
    /\ \E k \in StageEdits : OutOfRange(custom_params[k])
    /\ params_df = BaseTable
    /\ DOMAIN mission_need_overrides # {}

====
